---- MODULE Spec2Model ----
(***************************************************************************)
(* NewPDFPolygonDrawer (src/src/components/NewPDFCanvasViewer.tsx): the    *)
(* zone editing state machine.  The React state of the component are the   *)
(* variables; every event handler is one action.                           *)
(*                                                                         *)
(* Coordinates are integers counting thousandths of a canvas unit, so that *)
(* toFixed(2) is a real rounding (to a multiple of 10) and not the         *)
(* identity.                                                               *)
(*                                                                         *)
(* Spec is the editor under an outline the user traces; SpecClicks the     *)
(* first polygon under free clicks; SpecSnap getSnappedPoint on its own;   *)
(* SpecRender the editor with loadPDF, the render effect and               *)
(* renderPDFPage; SpecHeap the editor with the ZoneSet arrays taken by     *)
(* identity; SpecExport the "Export Zones" button.                         *)
(*                                                                         *)
(* PDFCanvasViewer (src/src/components/PDFCanvasViewer.tsx), the editor of *)
(* polygons and shapes with its own undo and redo stacks, is SpecViewer.   *)
(***************************************************************************)
EXTENDS Integers, Sequences, FiniteSets, TLC

VARIABLES
    currentPolygon,  \* useState<Point[]>        (line 22)
    zones,           \* useState<Point[][][]>    (line 23)
    history,         \* useState<Point[][][][]>  (line 24)
    redoStack,       \* useState<Point[][][][]>  (line 25)
    pdfDoc,          \* useState<any>(null)      (line 21): "null" or "pdf"
    renderTaskRef,   \* useRef<any>(null)        (line 20): the renderPDFPage
                     \* call whose task it holds, 0 for null
    loadPDF,         \* where loadPDF (lines 28-33) stands
    renders,         \* the calls of renderPDFPage, in the order they were made
    canvas,          \* the overlay on the canvas: none, or the zones and the
                     \* polygon drawn over the page
    console,         \* what console.log printed last (line 243)
    heap,            \* the arrays behind zones, history and redoStack, by
                     \* identity (SpecHeap)
    ev,              \* observation of the last handled event: which handler
                     \* ran, how it ended, the state it started from and what
                     \* the polygon library answered
    pushedAt,        \* observation, one number per redoStack entry: the order
                     \* in which the entries were pushed (larger = later)
    undoRun,         \* observation: the ZoneSets undone by the current run of
                     \* consecutive undos, in the order they were undone
    redoRun,         \* observation: how many redos have followed that run
    viewer,          \* PDFCanvasViewer's React state (PDFCanvasViewer.tsx
                     \* lines 29-46), one field per useState
    edit             \* observation of PDFCanvasViewer: the last event, and the
                     \* EditorState before and after the operation it belongs to

\* the editor's state and the observations of it
editor == <<currentPolygon, zones, history, redoStack, ev, pushedAt, undoRun, redoRun>>

\* the page renderer's state
renderer == <<pdfDoc, renderTaskRef, loadPDF, renders, canvas>>

\* the other component and the observation of it
drawer == <<viewer, edit>>

vars == <<editor, renderer, console, heap, drawer>>

----------------------------------------------------------------------------
(* Bounds of the model. *)

\* deepest undo timeline: Len(history) + Len(redoStack) never exceeds it
MaxHistory == 3

\* most points of a polygon drawn with free clicks (SpecClicks)
MaxPoints == 4

\* most runs of the render effect (SpecRender): the state changes the user
\* makes while the renderer is watched
MaxRenders == 4

----------------------------------------------------------------------------
(* Points, rings, and the numeric helpers. *)

\* n canvas units, in thousandths
Px(n) == n * 1000

\* interface Point { x: number; y: number }
Pt(x, y) == [x |-> x, y |-> y]

\* const SNAP_THRESHOLD = 10
SNAP_THRESHOLD == 10

\* +v.toFixed(2): round to two decimals, halves away from zero
Fixed2(v) ==
    IF v >= 0 THEN ((v + 5) \div 10) * 10
              ELSE 0 - ((((0 - v) + 5) \div 10) * 10)

RECURSIVE IsqrtFrom(_, _)
\* Newton's iteration downwards from x >= sqrt(n)
IsqrtFrom(n, x) ==
    LET y == (x + n \div x) \div 2
    IN  IF y >= x THEN x ELSE IsqrtFrom(n, y)

\* Math.sqrt on a non-negative integer, rounded down (exact on squares)
Isqrt(n) == IF n = 0 THEN 0 ELSE IsqrtFrom(n, IF n < 46340 THEN n ELSE 46340)

\* a / b rounded to the nearest integer, b > 0
DivRound(a, b) ==
    IF a >= 0 THEN (2 * a + b) \div (2 * b)
              ELSE 0 - ((2 * (0 - a) + b) \div (2 * b))

\* a point whose x and y are numbers; the points made from a MultiPolygon
\* (see Parts) are not
IsNumeric(p) == "x" \in DOMAIN p

\* (a.x - b.x) ** 2 + (a.y - b.y) ** 2, the radicand of distance and of
\* isCloseToStart
DistSq(a, b) == (a.x - b.x) * (a.x - b.x) + (a.y - b.y) * (a.y - b.y)

\* const isCloseToStart = (start, current) => Math.sqrt(dx*dx + dy*dy) < 10
isCloseToStart(start, current) == Isqrt(DistSq(start, current)) < Px(10)

----------------------------------------------------------------------------
(* getSnappedPoint (lines 112-138). *)

RECURSIVE Flatten(_)
\* the concatenation of a sequence of sequences, in order
Flatten(ss) == IF ss = <<>> THEN <<>> ELSE Head(ss) \o Flatten(Tail(ss))

\* every vertex of every ring of every zone, in the order the three nested
\* loops visit them
Vertices(zs) == Flatten(Flatten(zs))

RECURSIVE NearestFrom(_, _, _, _, _)
\* the loop body "if (d < minDist) { minDist = d; nearest = vertex }" run over
\* vs[i..]; best = 0 stands for nearest = null.  distance is compared by its
\* square; a vertex whose x, y are not numbers gives d = NaN, never < minDist
NearestFrom(point, vs, i, best, minSq) ==
    IF i > Len(vs) THEN best
    ELSE IF IsNumeric(vs[i]) /\ DistSq(point, vs[i]) < minSq
         THEN NearestFrom(point, vs, i + 1, i, DistSq(point, vs[i]))
         ELSE NearestFrom(point, vs, i + 1, best, minSq)

getSnappedPoint(point, zs) ==
    LET vs   == Vertices(zs)
        best == NearestFrom(point, vs, 1, 0,
                            Px(SNAP_THRESHOLD) * Px(SNAP_THRESHOLD))
    IN  IF best = 0 THEN point
        ELSE LET nearest == vs[best]
                 dx      == point.x - nearest.x
                 dy      == point.y - nearest.y
                 root    == Isqrt(dx * dx + dy * dy)
                 length  == IF root = 0 THEN Px(1) ELSE root   \* "|| 1"
             IN  Pt(nearest.x + DivRound(dx * Px(1), length),
                    nearest.y + DivRound(dy * Px(1), length))

----------------------------------------------------------------------------
(* The polygon library (@turf/helpers, boolean-contains, boolean-intersects, *)
(* difference) is an outside collaborator: what it answers for one existing  *)
(* zone is an input of the closure, drawn from Answers.                      *)

\* rings the library hands back from difference, as closed position lists
RingA == << <<10000, 10000>>, <<40000, 10000>>, <<25000, 25004>>, <<10000, 10000>> >>
RingB == << <<40000, 10000>>, <<40000, 40000>>, <<25000, 25004>>, <<40000, 10000>> >>

\* difference() found nothing left: it returns null
NoFeature == [type |-> "null", coordinates |-> <<>>]

\* the geometries difference() returns here: null (nothing is left), a
\* Polygon of an outer ring and a hole (a part is left), a MultiPolygon of two
\* pieces (the zone is split)
Clipped ==
    { NoFeature,
      [type |-> "Polygon", coordinates |-> <<RingA, RingB>>],
      [type |-> "MultiPolygon", coordinates |-> << <<RingA>>, <<RingB>> >>] }

\* per existing zone: booleanContains is true; or it is false and
\* booleanIntersects is true and difference returns clipped; or both are false
Answers ==
    { [kind |-> k, clipped |-> NoFeature] : k \in {"contains", "disjoint"} }
    \cup { [kind |-> "intersects", clipped |-> c] : c \in Clipped }

\* the library's part in one closure over zones zs: it throws at some call
\* (and has then given no answer the handler uses), or it answers for every
\* zone
LibraryRuns(zs) ==
    { [throws |-> TRUE, answers |-> <<>>] }
    \cup { [throws |-> FALSE, answers |-> a] : a \in [1..Len(zs) -> Answers] }

\* turfPolygon(rings) throws unless every ring has 4 or more positions and
\* ends where it starts
ValidLinearRing(r) == Len(r) >= 4 /\ r[1] = r[Len(r)]

----------------------------------------------------------------------------
(* handleClosePolygon (lines 160-209). *)

\* ring.map((p) => [+p.x.toFixed(2), +p.y.toFixed(2)])
Coords(ring) == [i \in 1..Len(ring) |-> <<Fixed2(ring[i].x), Fixed2(ring[i].y)>>]

\* if (first[0] !== last[0] || first[1] !== last[1]) coords.push([...first])
CloseRing(c) == IF c[1] # c[Len(c)] THEN Append(c, c[1]) ELSE c

\* ring.map(([x, y]) => ({ x, y }))
Points(c) == [i \in 1..Len(c) |-> Pt(c[i][1], c[i][2])]

\* every point of the ring has numeric x and y, so p.x.toFixed is callable
NumericRing(ring) == \A i \in 1..Len(ring) : IsNumeric(ring[i])

\* lines 170-173: the zone's outer ring, rounded and closed
FlatOuter(zone) == CloseRing(Coords(zone[1]))

\* line 174: the zone's holes, rounded (not closed)
Holes(zone) == [i \in 1..(Len(zone) - 1) |-> Coords(zone[i + 1])]

\* lines 170-175 throw for this zone: toFixed of a non-number, or turfPolygon
\* refusing a ring
ZoneThrows(zone) ==
    \/ \E i \in 1..Len(zone) : ~NumericRing(zone[i])
    \/ ~ValidLinearRing(FlatOuter(zone))
    \/ \E i \in 1..(Len(zone) - 1) : ~ValidLinearRing(Holes(zone)[i])

\* WithHole with the new hole put before the existing ones ([coords, ...holes])
WithHoleFirst(zone, coords) ==
    <<Points(FlatOuter(zone))>>
        \o [i \in 1..Len(zone) |-> Points((<<coords>> \o Holes(zone))[i])]

\* lines 179-183: the zone with the new polygon as one more hole
WithHole(zone, coords) ==
    <<Points(FlatOuter(zone))>>
        \o [i \in 1..Len(zone) |-> Points((Holes(zone) \o <<coords>>)[i])]

\* lines 190-192: clipped.geometry.coordinates.map((ring) => ring.map(([x, y])
\* => ({ x, y }))).  Of a Polygon the elements are rings of positions.  Of a
\* MultiPolygon they are polygons, and [x, y] takes the first two positions of
\* each of its rings: a point whose coordinates are positions, kept here as
\* fields xs, ys
Parts(clipped) ==
    [i \in 1..Len(clipped.coordinates) |->
        IF clipped.type = "Polygon"
        THEN Points(clipped.coordinates[i])
        ELSE [j \in 1..Len(clipped.coordinates[i]) |->
                [xs |-> clipped.coordinates[i][j][1],
                 ys |-> clipped.coordinates[i][j][2]]]]

\* Pushed with a fully covered zone kept (the empty difference not told
\* apart from "no change")
PushedKeepCovered(zone, coords, answer) ==
    IF answer.kind = "contains" THEN << WithHole(zone, coords) >>
    ELSE IF answer.kind = "intersects" /\ Len(answer.clipped.coordinates) > 0
         THEN << Parts(answer.clipped) >>
         ELSE << zone >>

\* Pushed with a disjoint zone pushed as the rings handed to turfPolygon
\* (rounded, the outer ring closed) instead of the zone object itself
PushedDisjointNormalized(zone, coords, answer) ==
    IF answer.kind = "contains" THEN << WithHole(zone, coords) >>
    ELSE IF answer.kind = "intersects"
         THEN IF Len(answer.clipped.coordinates) > 0
              THEN << Parts(answer.clipped) >>
              ELSE <<>>
         ELSE << <<Points(FlatOuter(zone))>>
                    \o [k \in 1..(Len(zone) - 1) |-> Points(Holes(zone)[k])] >>

\* lines 177-198: what one pass of the loop pushes onto updatedZones
Pushed(zone, coords, answer) ==
    IF answer.kind = "contains" THEN << WithHole(zone, coords) >>
    ELSE IF answer.kind = "intersects"
         THEN IF Len(answer.clipped.coordinates) > 0
              THEN << Parts(answer.clipped) >>
              ELSE <<>>
         ELSE << zone >>

\* overlapHandled after the loop
OverlapHandled(answers) ==
    \E i \in 1..Len(answers) : answers[i].kind \in {"contains", "intersects"}

\* lines 161-164: the new polygon, rounded and closed
NewCoords(current) == CloseRing(Coords(current))

\* the handler throws before its first setState: the new ring is refused by
\* turfPolygon (line 165), or lines 170-175 throw at some zone, or a call of
\* booleanContains, booleanIntersects or difference throws (libThrows), which
\* takes a zone to call them on
CloseThrows(zs, current, libThrows) ==
    \/ ~ValidLinearRing(NewCoords(current))
    \/ \E i \in 1..Len(zs) : ZoneThrows(zs[i])
    \/ libThrows /\ Len(zs) > 0

\* UpdatedZones with the new zone built from the rounded, closed coords
\* instead of currentPolygon
UpdatedZonesFromCoords(zs, current, answers) ==
    Flatten([i \in 1..Len(zs) |-> Pushed(zs[i], NewCoords(current), answers[i])])
        \o (IF OverlapHandled(answers) THEN <<>>
            ELSE << <<Points(NewCoords(current))>> >>)

\* UpdatedZones with the new polygon pushed whether or not a zone
\* overlapped it (overlapHandled not looked at)
UpdatedZonesAlwaysNew(zs, current, answers) ==
    Flatten([i \in 1..Len(zs) |-> Pushed(zs[i], NewCoords(current), answers[i])])
        \o << <<current>> >>

\* lines 166-203: updatedZones
UpdatedZones(zs, current, answers) ==
    Flatten([i \in 1..Len(zs) |-> Pushed(zs[i], NewCoords(current), answers[i])])
        \o (IF OverlapHandled(answers) THEN <<>> ELSE << <<current>> >>)

----------------------------------------------------------------------------
(* The event handlers. *)

\* points the user clicks (e.clientX - rect.left, e.clientY - rect.top)
ClickA == Pt(10000, 10000)
ClickB == Pt(40000, 10000)
ClickC == Pt(40000, 40000)

\* the raw points offered to a click when Current Polygon has n points: the
\* user traces an outline that starts at ClickA, goes on to ClickB, then to
\* ClickC or back to ClickA, and ends with a click on its start
Clicks(n) ==
    IF n = 0 THEN {ClickA}
    ELSE IF n = 1 THEN {ClickB}
    ELSE IF n = 2 THEN {ClickA, ClickC}
    ELSE {ClickA}

\* the state a handler starts from
Snapshot ==
    [zones |-> zones, currentPolygon |-> currentPolygon,
     history |-> history, redoStack |-> redoStack, pushedAt |-> pushedAt]

\* what ev holds: op the handler, outcome one of "done" (ran to its end),
\* "noop" (returned early), "threw" (an exception left the handler), closed
\* whether handleClosePolygon ran to its end, pre the state before,
\* answers the library's answers to handleClosePolygon
Observed(op, outcome, closed, answers) ==
    [op |-> op, outcome |-> outcome, closed |-> closed,
     pre |-> Snapshot, answers |-> answers]

\* the events that are neither an undo nor a redo end the run of undos
EndRun == undoRun' = <<>> /\ redoRun' = 0

\* a canvas with no overlay: as created, and after lines 51-52 size it
Blank == [drawn |-> FALSE, polygons |-> <<>>, current |-> <<>>]

\* a canvas with the overlay of lines 60-68 drawn from polygons and current
Overlay(polygons, current) == [drawn |-> TRUE, polygons |-> polygons, current |-> current]

\* PDFCanvasViewer after construction (PDFCanvasViewer.tsx lines 29-46);
\* loadPdf is where loadPdf (lines 48-52) stands.
\* null is the empty sequence for dragStart and resizingShape, which hold at
\* most one value, and 0 for selectedShapeIndex: positions count from 1 here
NewViewer ==
    [pdfDoc |-> "null", loadPdf |-> "idle",
     mode |-> "none", shapeType |-> "rectangle",
     polygons |-> <<>>, currentPolygon |-> <<>>, shapes |-> <<>>,
     selectedShapeIndex |-> 0, dragStart |-> <<>>,
     undoStack |-> <<>>, redoStack |-> <<>>, resizingShape |-> <<>>]

\* no event of PDFCanvasViewer observed yet
NoEdit ==
    [op |-> "none", of |-> "none",
     pre |-> [polygons |-> <<>>, currentPolygon |-> <<>>, shapes |-> <<>>],
     post |-> [polygons |-> <<>>, currentPolygon |-> <<>>, shapes |-> <<>>]]

\* the heap after construction: the array useState([]) made for zones
NewHeap == [arrays |-> << <<>> >>, zones |-> 1, history |-> <<>>, redoStack |-> <<>>]

Init ==
    /\ currentPolygon = <<>>
    /\ zones = <<>>
    /\ history = <<>>
    /\ redoStack = <<>>
    /\ pdfDoc = "null"
    /\ renderTaskRef = 0
    /\ loadPDF = "getDocument"
    /\ renders = <<>>
    /\ canvas = Blank
    /\ console = <<>>
    /\ heap = NewHeap
    /\ viewer = NewViewer
    /\ edit = NoEdit
    /\ pushedAt = <<>>
    /\ undoRun = <<>>
    /\ redoRun = 0
    /\ ev = [op |-> "none", outcome |-> "done", closed |-> FALSE,
             pre |-> [zones |-> <<>>, currentPolygon |-> <<>>,
                      history |-> <<>>, redoStack |-> <<>>, pushedAt |-> <<>>],
             answers |-> <<>>]

\* PushHistory with the entry put in front (unshift for push)
PushHistoryFront(h, zs) == <<zs>> \o h

\* setHistory([...history, zones]) (lines 205 and 224)
PushHistory(h, zs) == Append(h, zs)

\* ClearedRedo with the setRedoStack([]) call left out
KeptRedo(stack) == stack

\* setRedoStack([]) (line 206)
ClearedRedo(stack) == <<>>

\* UndoPush with the entry put at the end ([...redoStack, zones])
UndoPushBack(stack, zs) == Append(stack, zs)

\* setRedoStack([zones, ...redoStack]) (line 216)
UndoPush(stack, zs) == <<zs>> \o stack

\* RedoNext reading the other end of the stack
RedoNextLast(stack) == stack[Len(stack)]

\* redoStack[0] (line 222)
RedoNext(stack) == stack[1]

\* RedoRest with nothing taken off the stack
RedoRestKept(stack) == stack

\* redoStack.slice(1) (line 223)
RedoRest(stack) == Tail(stack)

\* the number given to the next entry pushed on the redo stack
NextStamp == IF pushedAt = <<>> THEN 1
             ELSE 1 + (CHOOSE m \in {pushedAt[i] : i \in 1..Len(pushedAt)} :
                          \A i \in 1..Len(pushedAt) : pushedAt[i] <= m)

\* handleClosePolygon called from the handler op, the library running as
\* lib.  An exception leaves before the four setState calls (lines 205-208)
\* and nothing catches it.
handleClosePolygon(op, lib) ==
    /\ EndRun
    /\ IF CloseThrows(zones, currentPolygon, lib.throws)
       THEN /\ UNCHANGED <<currentPolygon, zones, history, redoStack, pushedAt>>
            /\ ev' = Observed(op, "threw", FALSE, <<>>)
       ELSE /\ Len(history) < MaxHistory
            /\ history' = PushHistory(history, zones)
            /\ redoStack' = ClearedRedo(redoStack)
            /\ pushedAt' = ClearedRedo(pushedAt)
            /\ zones' = UpdatedZones(zones, currentPolygon, lib.answers)
            /\ currentPolygon' = <<>>
            /\ ev' = Observed(op, "done", TRUE, lib.answers)

\* CanvasClick without the length test of line 147: a click near the start
\* point closes whatever has been drawn
CanvasClickAnyLength(raw) ==
    LET snapped == getSnappedPoint(raw, zones)
    IN  IF Len(currentPolygon) >= 1 /\ isCloseToStart(currentPolygon[1], snapped)
        THEN \E lib \in LibraryRuns(zones) : handleClosePolygon("click", lib)
        ELSE /\ currentPolygon' = Append(currentPolygon, snapped)
             /\ UNCHANGED <<zones, history, redoStack, pushedAt>>
             /\ EndRun
             /\ ev' = Observed("click", "done", FALSE, <<>>) @@ [raw |-> raw]

\* handleCanvasClick (lines 140-152) for a click at rawPoint = raw; the
\* observation of a click that appends keeps raw
CanvasClick(raw) ==
    LET snapped == getSnappedPoint(raw, zones)
    IN  IF Len(currentPolygon) >= 3 /\ isCloseToStart(currentPolygon[1], snapped)
        THEN \E lib \in LibraryRuns(zones) : handleClosePolygon("click", lib)
        ELSE /\ currentPolygon' = Append(currentPolygon, snapped)
             /\ UNCHANGED <<zones, history, redoStack, pushedAt>>
             /\ EndRun
             /\ ev' = Observed("click", "done", FALSE, <<>>) @@ [raw |-> raw]

\* handleCanvasClick, the click being one the user's outline offers
handleCanvasClick ==
    \E raw \in Clicks(Len(currentPolygon)) : CanvasClick(raw)

\* handleCanvasDoubleClick (lines 154-158)
handleCanvasDoubleClick ==
    IF Len(currentPolygon) >= 3
    THEN \E lib \in LibraryRuns(zones) : handleClosePolygon("dblclick", lib)
    ELSE /\ UNCHANGED <<currentPolygon, zones, history, redoStack, pushedAt>>
         /\ EndRun
         /\ ev' = Observed("dblclick", "noop", FALSE, <<>>)

\* handleUndo without its guard: the missing snapshot read as an empty ZoneSet
handleUndoUnguarded ==
    /\ zones' = IF Len(history) = 0 THEN <<>> ELSE history[Len(history)]
    /\ history' = SubSeq(history, 1, Len(history) - 1)
    /\ redoStack' = UndoPush(redoStack, zones)
    /\ pushedAt' = UndoPush(pushedAt, NextStamp)
    /\ UNCHANGED currentPolygon
    /\ undoRun' = IF redoRun = 0 THEN Append(undoRun, zones) ELSE <<zones>>
    /\ redoRun' = 0
    /\ ev' = Observed("undo", "done", FALSE, <<>>)

\* handleUndo (lines 212-218)
handleUndo ==
    IF Len(history) = 0
    THEN /\ UNCHANGED <<currentPolygon, zones, history, redoStack, pushedAt>>
         /\ UNCHANGED <<undoRun, redoRun>>
         /\ ev' = Observed("undo", "noop", FALSE, <<>>)
    ELSE /\ zones' = history[Len(history)]
         /\ history' = SubSeq(history, 1, Len(history) - 1)
         /\ redoStack' = UndoPush(redoStack, zones)
         /\ pushedAt' = UndoPush(pushedAt, NextStamp)
         /\ UNCHANGED currentPolygon
         /\ undoRun' = IF redoRun = 0 THEN Append(undoRun, zones) ELSE <<zones>>
         /\ redoRun' = 0
         /\ ev' = Observed("undo", "done", FALSE, <<>>)

\* handleRedo that also drops the polygon in progress
handleRedoClearing ==
    IF Len(redoStack) = 0
    THEN /\ UNCHANGED <<currentPolygon, zones, history, redoStack, pushedAt>>
         /\ UNCHANGED <<undoRun, redoRun>>
         /\ ev' = Observed("redo", "noop", FALSE, <<>>)
    ELSE /\ zones' = RedoNext(redoStack)
         /\ redoStack' = RedoRest(redoStack)
         /\ pushedAt' = RedoRest(pushedAt)
         /\ history' = PushHistory(history, zones)
         /\ currentPolygon' = <<>>
         /\ IF redoRun < Len(undoRun)
            THEN undoRun' = undoRun /\ redoRun' = redoRun + 1
            ELSE EndRun
         /\ ev' = Observed("redo", "done", FALSE, <<>>)

\* handleRedo (lines 220-226)
handleRedo ==
    IF Len(redoStack) = 0
    THEN /\ UNCHANGED <<currentPolygon, zones, history, redoStack, pushedAt>>
         /\ UNCHANGED <<undoRun, redoRun>>
         /\ ev' = Observed("redo", "noop", FALSE, <<>>)
    ELSE /\ zones' = RedoNext(redoStack)
         /\ redoStack' = RedoRest(redoStack)
         /\ pushedAt' = RedoRest(pushedAt)
         /\ history' = PushHistory(history, zones)
         /\ UNCHANGED currentPolygon
         /\ IF redoRun < Len(undoRun)
            THEN undoRun' = undoRun /\ redoRun' = redoRun + 1
            ELSE EndRun
         /\ ev' = Observed("redo", "done", FALSE, <<>>)

\* clearCurrentPolygon that also drops the undone ZoneSets, as a closure does
clearCurrentPolygonAndRedo ==
    /\ currentPolygon' = <<>>
    /\ redoStack' = <<>>
    /\ pushedAt' = <<>>
    /\ UNCHANGED <<zones, history>>
    /\ EndRun
    /\ ev' = Observed("clear", "done", FALSE, <<>>)

\* "Clear Current Polygon" (line 231)
clearCurrentPolygon ==
    /\ currentPolygon' = <<>>
    /\ UNCHANGED <<zones, history, redoStack, pushedAt>>
    /\ EndRun
    /\ ev' = Observed("clear", "done", FALSE, <<>>)

\* the editor alone: the page is not rendered, nothing is exported, and arrays
\* are taken by value
EditorOnly == UNCHANGED <<renderer, console, heap, drawer>>

Next ==
    \/ handleCanvasClick /\ EditorOnly
    \/ handleCanvasDoubleClick /\ EditorOnly
    \/ handleUndo /\ EditorOnly
    \/ handleRedo /\ EditorOnly
    \/ clearCurrentPolygon /\ EditorOnly

Spec == Init /\ [][Next]_vars

----------------------------------------------------------------------------
(* getSnappedPoint on its own: a first click, at a point around the vertex   *)
(* ClickA, on a canvas that holds one of a few ZoneSets.                     *)

\* a zone as a closure stores it: one ring, the clicked points, not closed
Triangle == << <<ClickA, ClickB, ClickC>> >>

\* a second zone, one of whose vertices lies 5 away from ClickA
Neighbour == << <<Pt(14000, 13000), Pt(30000, 40000), Pt(14000, 40000)>> >>

\* the ZoneSets of the canvas: none; one zone; two zones with vertices near
\* each other; a zone with a hole as difference returns it; a zone made from a
\* MultiPolygon followed by a plain one
SnapZoneSets ==
    { <<>>,
      <<Triangle>>,
      <<Neighbour, Triangle>>,
      << Parts([type |-> "Polygon", coordinates |-> <<RingA, RingB>>]) >>,
      << Parts([type |-> "MultiPolygon", coordinates |-> << <<RingA>>, <<RingB>> >>]),
         Triangle >> }

\* how far from ClickA, along each axis, the clicks fall
SnapOffsets == {0 - 2000, 0, 1000, 3000, 4000, 6000, 8000, 10000, 12000}

\* the clicked points
SnapPoints == {Pt(ClickA.x + dx, ClickA.y + dy) : dx \in SnapOffsets, dy \in SnapOffsets}

SnapInit ==
    /\ zones \in SnapZoneSets
    /\ currentPolygon = <<>>
    /\ history = <<>>
    /\ redoStack = <<>>
    /\ pdfDoc = "null"
    /\ renderTaskRef = 0
    /\ loadPDF = "getDocument"
    /\ renders = <<>>
    /\ canvas = Blank
    /\ console = <<>>
    /\ heap = NewHeap
    /\ viewer = NewViewer
    /\ edit = NoEdit
    /\ pushedAt = <<>>
    /\ undoRun = <<>>
    /\ redoRun = 0
    /\ ev = [op |-> "none", outcome |-> "done", closed |-> FALSE,
             pre |-> [zones |-> <<>>, currentPolygon |-> <<>>,
                      history |-> <<>>, redoStack |-> <<>>, pushedAt |-> <<>>],
             answers |-> <<>>]

\* the first click of a polygon
FirstClick ==
    /\ currentPolygon = <<>>
    /\ \E raw \in SnapPoints : CanvasClick(raw)

SnapNext ==
    \/ FirstClick /\ EditorOnly
    \/ clearCurrentPolygon /\ EditorOnly

SpecSnap == SnapInit /\ [][SnapNext]_vars

----------------------------------------------------------------------------
(* The first polygon drawn with free clicks: every click falls on one of     *)
(* three points, in any order and as often as the user likes, so that the    *)
(* two clicks a browser sends before a dblclick event are among the runs.    *)

\* the points clicked
FreePoints == {ClickA, ClickB, ClickC}

\* a click while the first polygon is drawn
FreeClick ==
    /\ history = <<>>
    /\ Len(currentPolygon) < MaxPoints
    /\ \E raw \in FreePoints : CanvasClick(raw)

\* a dblclick event while the first polygon is drawn
FreeDoubleClick == history = <<>> /\ handleCanvasDoubleClick

ClicksNext ==
    \/ FreeClick /\ EditorOnly
    \/ FreeDoubleClick /\ EditorOnly
    \/ clearCurrentPolygon /\ EditorOnly

SpecClicks == Init /\ [][ClicksNext]_vars

----------------------------------------------------------------------------
(* The page renderer: loadPDF, the render effect and renderPDFPage (lines    *)
(* 27-77).  pdf.js is an outside collaborator: getDocument and getPage        *)
(* resolve or reject when they please, a render task ends, fails, or rejects  *)
(* with RenderingCancelledException once cancel() was called on it.           *)

\* a call renderPDFPage(pdf, polygons, current), suspended at line 48
Call(polygons, current) ==
    [polygons |-> polygons, current |-> current, pc |-> "getPage",
     task |-> "none", cancelCalled |-> FALSE]

\* a run of the render effect that found pdfDoc null (line 38) and called
\* nothing
Skipped ==
    [polygons |-> <<>>, current |-> <<>>, pc |-> "skipped",
     task |-> "none", cancelCalled |-> FALSE]

\* a call that has returned: its arguments are dropped
Ended(call, pc, task) ==
    [polygons |-> <<>>, current |-> <<>>, pc |-> pc,
     task |-> task, cancelCalled |-> call.cancelCalled]

\* renderTaskRef.current.cancel() (line 54) as the task of call sees it: a
\* running task is cancelled, a task that has ended stays as it ended
Cancel(call) ==
    [call EXCEPT !.cancelCalled = TRUE,
                 !.task = IF @ = "running" THEN "cancelled" ELSE @]

\* lines 37-41: the effect runs after a handler that set zones or
\* currentPolygon (every setState call of the handlers passes a new array)
\* and calls renderPDFPage with the new values if pdfDoc is set
RenderEffect ==
    /\ renders' = IF ev'.outcome = "done"
                  THEN Append(renders,
                              IF pdfDoc = "pdf" THEN Call(zones', currentPolygon')
                                                ELSE Skipped)
                  ELSE renders
    /\ UNCHANGED <<pdfDoc, renderTaskRef, loadPDF, canvas>>

\* a handler of the editor, followed by the render effect
Rendered(handler) ==
    /\ Len(renders) < MaxRenders
    /\ handler
    /\ RenderEffect
    /\ UNCHANGED <<console, heap, drawer>>

\* lines 30-32: getDocument resolves; setPdfDoc(pdf), then the first call of
\* renderPDFPage, with no zones and no polygon
loadPDFResolved ==
    /\ loadPDF = "getDocument"
    /\ loadPDF' = "renderPDFPage"
    /\ pdfDoc' = "pdf"
    /\ renders' = Append(renders, Call(<<>>, <<>>))
    /\ UNCHANGED <<renderTaskRef, canvas, console, heap, editor, drawer>>

\* line 30: getDocument rejects and loadPDF ends there
loadPDFRejected ==
    /\ loadPDF = "getDocument"
    /\ loadPDF' = "rejected"
    /\ UNCHANGED <<pdfDoc, renderTaskRef, renders, canvas, console, heap, editor, drawer>>

\* renderPDFPageStart without line 54: the task in flight is left running
renderPDFPageStartNoCancel(i) ==
    /\ renders[i].pc = "getPage"
    /\ canvas' = Blank
    /\ renders' = [renders EXCEPT ![i].pc = "renderTask", ![i].task = "running"]
    /\ renderTaskRef' = i
    /\ UNCHANGED <<pdfDoc, loadPDF, console, heap, editor, drawer>>

\* lines 48-59 of call i: getPage resolves; the canvas is sized (which clears
\* it), the task renderTaskRef holds is cancelled, the call's own task is
\* started and stored, and the call waits for it
renderPDFPageStart(i) ==
    /\ renders[i].pc = "getPage"
    /\ canvas' = Blank
    /\ renders' =
         [k \in 1..Len(renders) |->
            IF k = i THEN [renders[i] EXCEPT !.pc = "renderTask", !.task = "running"]
            ELSE IF k = renderTaskRef THEN Cancel(renders[k])
            ELSE renders[k]]
    /\ renderTaskRef' = i
    /\ UNCHANGED <<pdfDoc, loadPDF, console, heap, editor, drawer>>

\* line 48 of call i: getPage rejects; the rejection leaves renderPDFPage
getPageRejected(i) ==
    /\ renders[i].pc = "getPage"
    /\ renders' = [renders EXCEPT ![i] = Ended(@, "failed", "none")]
    /\ UNCHANGED <<pdfDoc, renderTaskRef, loadPDF, canvas, console, heap, editor, drawer>>

\* lines 59-68 of call i: its task ends and the overlay is drawn from the
\* call's arguments
renderPDFPageDrawn(i) ==
    /\ renders[i].pc = "renderTask" /\ renders[i].task = "running"
    /\ canvas' = Overlay(renders[i].polygons, renders[i].current)
    /\ renders' = [renders EXCEPT ![i] = Ended(@, "drawn", "finished")]
    /\ UNCHANGED <<pdfDoc, renderTaskRef, loadPDF, console, heap, editor, drawer>>

\* lines 69-72 of call i: its task was cancelled; RenderingCancelledException
\* is caught
renderPDFPageCancelled(i) ==
    /\ renders[i].pc = "renderTask" /\ renders[i].task = "cancelled"
    /\ renders' = [renders EXCEPT ![i] = Ended(@, "cancelled", "cancelled")]
    /\ UNCHANGED <<pdfDoc, renderTaskRef, loadPDF, canvas, console, heap, editor, drawer>>

\* lines 69-75 of call i: its task fails with another error, which is caught
renderPDFPageFailed(i) ==
    /\ renders[i].pc = "renderTask" /\ renders[i].task = "running"
    /\ renders' = [renders EXCEPT ![i] = Ended(@, "failed", "failed")]
    /\ UNCHANGED <<pdfDoc, renderTaskRef, loadPDF, canvas, console, heap, editor, drawer>>

RenderNext ==
    \/ Rendered(handleCanvasClick)
    \/ Rendered(handleCanvasDoubleClick)
    \/ Rendered(handleUndo)
    \/ Rendered(handleRedo)
    \/ Rendered(clearCurrentPolygon)
    \/ loadPDFResolved
    \/ loadPDFRejected
    \/ \E i \in 1..Len(renders) : renderPDFPageStart(i)
    \/ \E i \in 1..Len(renders) : getPageRejected(i)
    \/ \E i \in 1..Len(renders) : renderPDFPageDrawn(i)
    \/ \E i \in 1..Len(renders) : renderPDFPageCancelled(i)
    \/ \E i \in 1..Len(renders) : renderPDFPageFailed(i)

SpecRender == Init /\ [][RenderNext]_vars

----------------------------------------------------------------------------
(* The ZoneSet arrays by identity.  The state variables hold references:     *)
(* heap.zones, heap.history and heap.redoStack name arrays of heap.arrays,    *)
(* and Array.push changes the array it is called on in place.  The only       *)
(* arrays of points, rings or zones the component changes in place are the    *)
(* updatedZones of handleClosePolygon; coords and flatOuter are arrays of     *)
(* number pairs that no state variable ever holds.                            *)

RECURSIVE FirstOccurrences(_, _)
\* the elements of seq in the order they first occur, after those of seen
FirstOccurrences(seq, seen) ==
    IF seq = <<>> THEN seen
    ELSE IF \E k \in 1..Len(seen) : seen[k] = Head(seq)
         THEN FirstOccurrences(Tail(seq), seen)
         ELSE FirstOccurrences(Tail(seq), Append(seen, Head(seq)))

\* the heap without the arrays no state variable reaches, the arrays that are
\* left numbered in the order history, zones, redoStack reach them
Collected(h) ==
    LET live  == FirstOccurrences(h.history \o <<h.zones>> \o h.redoStack, <<>>)
        at(a) == CHOOSE k \in 1..Len(live) : live[k] = a
    IN  [arrays    |-> [k \in 1..Len(live) |-> h.arrays[live[k]]],
         zones     |-> at(h.zones),
         history   |-> [k \in 1..Len(h.history) |-> at(h.history[k])],
         redoStack |-> [k \in 1..Len(h.redoStack) |-> at(h.redoStack[k])]]

\* the reference of a new array holding the elements of seq: [...seq], or []
NewArray(h) == Len(h.arrays) + 1

\* the arrays of h with one more, holding elems
WithNewArray(h, elems) == Append(h.arrays, elems)

\* UpdatedZonesArray pushing onto the live zones array instead of a new one
UpdatedZonesArrayLive(h) == h.zones

\* line 166: let updatedZones = [], the array lines 184, 193, 197 and 202
\* push onto
UpdatedZonesArray(h) == NewArray(h)

\* handleClosePolygon on references: the zones pushed are computed from the
\* zones array as it is when the handler starts, pushed in place onto
\* updatedZones; history gets the reference of zones, zones that of
\* updatedZones
HeapClose(h, current, answers) ==
    LET target == UpdatedZonesArray(h)
        pushed == UpdatedZones(h.arrays[h.zones], current, answers)
        all    == WithNewArray(h, <<>>)
    IN  Collected([arrays    |-> [all EXCEPT ![target] = @ \o pushed],
                   zones     |-> target,
                   history   |-> Append(h.history, h.zones),
                   redoStack |-> <<>>])

\* handleUndo on references: previous is a new array, [...history[last]]
HeapUndo(h) ==
    LET last == h.history[Len(h.history)]
    IN  Collected([arrays    |-> WithNewArray(h, h.arrays[last]),
                   zones     |-> NewArray(h),
                   history   |-> SubSeq(h.history, 1, Len(h.history) - 1),
                   redoStack |-> <<h.zones>> \o h.redoStack])

\* handleRedo on references: next is a new array, [...redoStack[0]]
HeapRedo(h) ==
    Collected([arrays    |-> WithNewArray(h, h.arrays[h.redoStack[1]]),
               zones     |-> NewArray(h),
               history   |-> Append(h.history, h.zones),
               redoStack |-> Tail(h.redoStack)])

\* what the handler that just ran did to the arrays
HeapEffect ==
    heap' = IF ev'.closed
            THEN HeapClose(heap, currentPolygon, ev'.answers)
            ELSE IF ev'.op = "undo" /\ ev'.outcome = "done" THEN HeapUndo(heap)
            ELSE IF ev'.op = "redo" /\ ev'.outcome = "done" THEN HeapRedo(heap)
            ELSE heap

\* a handler of the editor, with what it does to the arrays
OnHeap(handler) ==
    /\ handler
    /\ HeapEffect
    /\ UNCHANGED <<renderer, console, drawer>>

HeapNext ==
    \/ OnHeap(handleCanvasClick)
    \/ OnHeap(handleCanvasDoubleClick)
    \/ OnHeap(handleUndo)
    \/ OnHeap(handleRedo)
    \/ OnHeap(clearCurrentPolygon)

SpecHeap == Init /\ [][HeapNext]_vars

----------------------------------------------------------------------------
(* "Export Zones" (lines 235-244): zoneData, and its JSON text.              *)

\* JSON.stringify of the number v (held in thousandths): sign, integer digits
\* and the three decimals
NumberText(v) ==
    [json     |-> "number",
     minus    |-> v < 0,
     digits   |-> (IF v < 0 THEN 0 - v ELSE v) \div 1000,
     decimals |-> (IF v < 0 THEN 0 - v ELSE v) % 1000]

\* JSON.stringify of an array of numbers
NumbersText(vs) == [json |-> "array", items |-> [k \in 1..Len(vs) |-> NumberText(vs[k])]]

\* JSON.stringify of a point: {"x": .., "y": ..}; the x and y of a point made
\* from a MultiPolygon are arrays of two numbers each
PointText(p) ==
    IF IsNumeric(p)
    THEN [x |-> NumberText(p.x), y |-> NumberText(p.y)]
    ELSE [x |-> NumbersText(p.xs), y |-> NumbersText(p.ys)]

\* JSON.stringify of a ring: an array of points
RingText(ring) == [k \in 1..Len(ring) |-> PointText(ring[k])]

\* zoneData with the holes in reverse order
zoneDataReversed(zs) ==
    [i \in 1..Len(zs) |->
        [zoneIndex |-> i - 1,
         outer     |-> zs[i][1],
         holes     |-> [k \in 1..(Len(zs[i]) - 1) |-> zs[i][Len(zs[i]) + 1 - k]]]]

\* lines 236-242: zones.map((zone, idx) => ({ zoneIndex: idx, outer: zone[0],
\* holes: zone.slice(1) })); idx counts from 0
zoneData(zs) ==
    [i \in 1..Len(zs) |->
        [zoneIndex |-> i - 1,
         outer     |-> zs[i][1],
         holes     |-> Tail(zs[i])]]

\* line 243: JSON.stringify(zoneData, null, 2)
Stringify(data) ==
    [i \in 1..Len(data) |->
        [zoneIndex |-> NumberText(Px(data[i].zoneIndex)),
         outer     |-> RingText(data[i].outer),
         holes     |-> [k \in 1..Len(data[i].holes) |-> RingText(data[i].holes[k])]]]

\* the "Export Zones" button
exportZones ==
    /\ console' = Stringify(zoneData(zones))
    /\ ev' = Observed("export", "done", FALSE, <<>>)
    /\ UNCHANGED <<currentPolygon, zones, history, redoStack, pushedAt, undoRun, redoRun>>
    /\ UNCHANGED <<renderer, heap, drawer>>

\* a zone with two holes: the zone difference returned, with the triangle
\* inserted as one more hole
TwoHoles ==
    WithHole(Parts([type |-> "Polygon", coordinates |-> <<RingA, RingB>>]),
             NewCoords(Triangle[1]))

\* a zone with a vertex left of the canvas: a click snapped to 1 from (0, 5)
LeftOfCanvas == << <<Pt(0 - 1000, 5000), Pt(20000, 5000), Pt(20000, 30010)>> >>

\* the zones exported
ExportZones ==
    { Triangle, Neighbour, TwoHoles, LeftOfCanvas,
      Parts([type |-> "Polygon", coordinates |-> <<RingA, RingB>>]),
      Parts([type |-> "MultiPolygon", coordinates |-> << <<RingA>>, <<RingB>> >>]) }

\* the ZoneSets exported: up to three of those zones, in every order; in
\* ExportInit the history holds the empty ZoneSet the first closure pushed,
\* and the redo stack nothing or the ZoneSet of an undone closure
ExportZoneSets ==
    {<<>>} \cup UNION {[1..n -> ExportZones] : n \in 1..3}

ExportInit ==
    /\ zones \in ExportZoneSets
    /\ currentPolygon \in {<<>>, <<ClickA, ClickB>>}
    /\ history = IF zones = <<>> THEN <<>> ELSE << <<>> >>
    /\ redoStack \in {<<>>, << Append(zones, Triangle) >>}
    /\ pushedAt = [k \in 1..Len(redoStack) |-> 1]
    /\ pdfDoc = "null"
    /\ renderTaskRef = 0
    /\ loadPDF = "getDocument"
    /\ renders = <<>>
    /\ canvas = Blank
    /\ console = <<>>
    /\ heap = NewHeap
    /\ viewer = NewViewer
    /\ edit = NoEdit
    /\ undoRun = <<>>
    /\ redoRun = 0
    /\ ev = [op |-> "none", outcome |-> "done", closed |-> FALSE,
             pre |-> [zones |-> <<>>, currentPolygon |-> <<>>,
                      history |-> <<>>, redoStack |-> <<>>, pushedAt |-> <<>>],
             answers |-> <<>>]

ExportNext == exportZones

SpecExport == ExportInit /\ [][ExportNext]_vars

----------------------------------------------------------------------------
(* PDFCanvasViewer (src/src/components/PDFCanvasViewer.tsx): polygons and    *)
(* shapes with an undo stack and a redo stack of EditorStates.  The canvas   *)
(* is not part of this state: renderPage and the render effect (lines        *)
(* 91-124, 339-341) read the state and write none of it.                     *)

\* most EditorStates the two stacks hold together
MaxEdits == 2

\* interface EditorState (lines 18-22), read from the state v
EditorState(v) ==
    [polygons |-> v.polygons, currentPolygon |-> v.currentPolygon, shapes |-> v.shapes]

\* saveToUndoStack (lines 54-64): a copy of the state of this render is
\* pushed, the redo stack is emptied
saveToUndoStack(v) ==
    [v EXCEPT !.undoStack = Append(@, EditorState(v)), !.redoStack = <<>>]

\* Math.abs
Abs(n) == IF n < 0 THEN 0 - n ELSE n

\* Math.min
Min(a, b) == IF a < b THEN a ELSE b

\* the closing and the handle tolerance: "< 6" on each axis (lines 258-259, 296)
Near(a, b) == Abs(a.x - b.x) < Px(6) /\ Abs(a.y - b.y) < Px(6)

\* newRect (lines 241-246)
NewRect(dragStart, newPoint) ==
    [x |-> Min(dragStart.x, newPoint.x), y |-> Min(dragStart.y, newPoint.y),
     width |-> Abs(dragStart.x - newPoint.x), height |-> Abs(dragStart.y - newPoint.y)]

\* The canvas points of the pointer events: (e.clientX - rect.left) * scaleX,
\* (e.clientY - rect.top) * scaleY (lines 229-235, 277-282, 309-314).
\* A polygon starts at ClickA, goes on to ClickC and is closed by a click
\* two units off its start
PolygonClicks(n) == IF n = 0 THEN {ClickA} ELSE {ClickC, Pt(12000, 12000)}

\* a shape is spanned from ClickA to ClickC
ShapeClicks(n) == IF n = 0 THEN {ClickA} ELSE {ClickC}

\* where its lower right handle is drawn to
Shrunk == Pt(30000, 30000)

\* the mouse button goes down on the lower right handle, before or after it
\* was moved
DownPoints == {ClickC, Shrunk}

\* and the handle is moved to
MovePoints == {Shrunk}

\* the operations that call saveToUndoStack
Mutating == {"point", "close", "shape", "resize"}

\* what edit holds after the operation op took the state from v to w
Operated(op, v, w) ==
    [op |-> op, of |-> op, pre |-> EditorState(v), post |-> EditorState(w)]

\* the buttons and the canvas while no shape is being resized: the mouse
\* button is held from handleMouseDown to handleMouseUp, and is released over
\* the canvas
Idle == viewer.resizingShape = <<>>

\* room on the stacks for one more EditorState
Room == Len(viewer.undoStack) + Len(viewer.redoStack) < MaxEdits

\* handleCanvasClick in mode 'shape', first corner (lines 237-239)
shapeFirstClick(newPoint) ==
    /\ Idle
    /\ viewer.mode = "shape"
    /\ viewer.dragStart = <<>>
    /\ viewer' = [viewer EXCEPT !.dragStart = <<newPoint>>]
    /\ edit' = NoEdit

\* handleCanvasClick in mode 'shape', second corner (lines 240-251);
\* polygonIndex is the position of the last polygon, 0 when there is none
\* (polygons.length - 1 counting from 0)
shapeSecondClick(newPoint) ==
    /\ Idle
    /\ Room
    /\ viewer.mode = "shape"
    /\ viewer.dragStart # <<>>
    /\ LET newRect == NewRect(viewer.dragStart[1], newPoint)
           polygonIndex == Len(viewer.polygons)
           saved == saveToUndoStack(viewer)
       IN  viewer' = [saved EXCEPT
                        !.shapes = Append(@, [polygonIndex |-> polygonIndex,
                                              type |-> viewer.shapeType,
                                              rect |-> newRect]),
                        !.dragStart = <<>>]
    /\ edit' = Operated("shape", viewer, viewer')

\* handleCanvasClick in mode 'polygon', on the start point (lines 256-265)
polygonClose(newPoint) ==
    /\ Idle
    /\ Room
    /\ viewer.mode = "polygon"
    /\ Len(viewer.currentPolygon) > 0
    /\ Near(viewer.currentPolygon[1], newPoint)
    /\ LET saved == saveToUndoStack(viewer)
           closed == Append(viewer.currentPolygon, viewer.currentPolygon[1])
       IN  viewer' = [saved EXCEPT !.polygons = Append(@, closed),
                                   !.currentPolygon = <<>>]
    /\ edit' = Operated("close", viewer, viewer')

\* handleCanvasClick in mode 'polygon', anywhere else (lines 266-270)
polygonPoint(newPoint) ==
    /\ Idle
    /\ Room
    /\ viewer.mode = "polygon"
    /\ ~(Len(viewer.currentPolygon) > 0 /\ Near(viewer.currentPolygon[1], newPoint))
    /\ LET saved == saveToUndoStack(viewer)
       IN  viewer' = [saved EXCEPT !.currentPolygon = Append(@, newPoint)]
    /\ edit' = Operated("point", viewer, viewer')

\* the shape's rectangle holds the point, edges included (line 286)
Inside(p, r) ==
    /\ p.x >= r.x /\ p.x <= r.x + r.width
    /\ p.y >= r.y /\ p.y <= r.y + r.height

\* handles (lines 288-293), in the order "for ... in" visits them
Corners == <<"tl", "tr", "bl", "br">>

\* where the handle of a corner is
Handle(r, corner) ==
    CASE corner = "tl" -> Pt(r.x, r.y)
      [] corner = "tr" -> Pt(r.x + r.width, r.y)
      [] corner = "bl" -> Pt(r.x, r.y + r.height)
      [] corner = "br" -> Pt(r.x + r.width, r.y + r.height)

\* handleMouseDown (lines 275-305): the first shape under the pointer is
\* selected, and its first handle within reach is taken hold of
handleMouseDown(p) ==
    /\ Idle
    /\ viewer.mode = "select"
    /\ LET hits == {i \in 1..Len(viewer.shapes) : Inside(p, viewer.shapes[i].rect)}
       IN  IF hits = {}
           THEN /\ viewer' = [viewer EXCEPT !.selectedShapeIndex = 0]
                /\ edit' = NoEdit
           ELSE LET i == CHOOSE h \in hits : \A k \in hits : h <= k
                    reached == {c \in 1..4 : Near(Handle(viewer.shapes[i].rect, Corners[c]), p)}
                IN  IF reached = {}
                    THEN /\ viewer' = [viewer EXCEPT !.selectedShapeIndex = i]
                         /\ edit' = NoEdit
                    ELSE LET c == CHOOSE h \in reached : \A k \in reached : h <= k
                         IN  /\ viewer' = [viewer EXCEPT
                                             !.selectedShapeIndex = i,
                                             !.resizingShape = <<[shapeIndex |-> i,
                                                                  corner |-> Corners[c]]>>]
                             /\ edit' = [op |-> "grab", of |-> "none",
                                         pre |-> EditorState(viewer),
                                         post |-> EditorState(viewer)]

\* the switch of lines 319-324: the rectangle r with its corner moved to p
Resized(r, corner, p) ==
    CASE corner = "tl" -> [x |-> p.x, y |-> p.y,
                           width |-> r.width + (r.x - p.x),
                           height |-> r.height + (r.y - p.y)]
      [] corner = "tr" -> [x |-> r.x, y |-> p.y,
                           width |-> p.x - r.x,
                           height |-> r.height + (r.y - p.y)]
      [] corner = "bl" -> [x |-> p.x, y |-> r.y,
                           width |-> r.width + (r.x - p.x),
                           height |-> p.y - r.y]
      [] corner = "br" -> [x |-> r.x, y |-> r.y,
                           width |-> p.x - r.x,
                           height |-> p.y - r.y]

\* handleMouseMove (lines 307-330)
handleMouseMove(p) ==
    /\ viewer.resizingShape # <<>>
    /\ LET held == viewer.resizingShape[1]
       IN  viewer' = [viewer EXCEPT
                        !.shapes[held.shapeIndex].rect = Resized(@, held.corner, p)]
    /\ edit' = [op |-> "drag", of |-> "none",
                pre |-> edit.pre, post |-> EditorState(viewer')]

\* handleMouseUp (lines 332-337): the state of this render, which the moves
\* have already changed, is what saveToUndoStack pushes
handleMouseUp ==
    /\ viewer.resizingShape # <<>>
    /\ Room
    /\ viewer' = [saveToUndoStack(viewer) EXCEPT !.resizingShape = <<>>]
    /\ edit' = [op |-> "resize", of |-> "resize",
                pre |-> edit.pre, post |-> EditorState(viewer')]

\* PDFCanvasViewer's handleUndo (lines 67-75)
Viewer_handleUndo ==
    /\ Idle
    /\ viewer.undoStack # <<>>
    /\ LET prev == viewer.undoStack[Len(viewer.undoStack)]
       IN  viewer' = [viewer EXCEPT
                        !.redoStack = Append(@, EditorState(viewer)),
                        !.undoStack = SubSeq(@, 1, Len(@) - 1),
                        !.polygons = prev.polygons,
                        !.currentPolygon = prev.currentPolygon,
                        !.shapes = prev.shapes]
    /\ edit' = [op |-> "undo",
                of |-> IF edit.op \in Mutating THEN edit.op ELSE "none",
                pre |-> edit.pre, post |-> edit.post]

\* PDFCanvasViewer's handleRedo (lines 79-87)
Viewer_handleRedo ==
    /\ Idle
    /\ viewer.redoStack # <<>>
    /\ LET next == viewer.redoStack[Len(viewer.redoStack)]
       IN  viewer' = [viewer EXCEPT
                        !.undoStack = Append(@, EditorState(viewer)),
                        !.redoStack = SubSeq(@, 1, Len(@) - 1),
                        !.polygons = next.polygons,
                        !.currentPolygon = next.currentPolygon,
                        !.shapes = next.shapes]
    /\ edit' = [op |-> "redo",
                of |-> IF edit.op = "undo" THEN edit.of ELSE "none",
                pre |-> edit.pre, post |-> edit.post]

\* the toolbar's mode buttons: onClick={() => setMode(...)} (lines 376, 392, 424)
setMode(m) ==
    /\ Idle
    /\ viewer.mode # m
    /\ viewer' = [viewer EXCEPT !.mode = m]
    /\ edit' = NoEdit

\* the shape select: onChange={(e) => setShapeType(e.target.value)} (line 408)
setShapeType(t) ==
    /\ Idle
    /\ viewer.shapeType # t
    /\ viewer' = [viewer EXCEPT !.shapeType = t]
    /\ edit' = NoEdit

\* the file input's onChange (lines 365-373): the drawing is emptied, the
\* stacks are not, and loadPdf starts; one file is loading at a time
chooseFile ==
    /\ Idle
    /\ viewer.loadPdf = "idle"
    /\ viewer' = [viewer EXCEPT !.polygons = <<>>, !.currentPolygon = <<>>,
                                !.shapes = <<>>, !.loadPdf = "loading"]
    /\ edit' = NoEdit

\* loadPdf past its awaits (lines 49-51)
loadPdfResolved ==
    /\ viewer.loadPdf = "loading"
    /\ viewer' = [viewer EXCEPT !.pdfDoc = "pdf", !.loadPdf = "idle"]
    /\ UNCHANGED edit

\* file.arrayBuffer() or getDocument rejected: loadPdf ends at its await
loadPdfRejected ==
    /\ viewer.loadPdf = "loading"
    /\ viewer' = [viewer EXCEPT !.loadPdf = "idle"]
    /\ UNCHANGED edit

\* PDFCanvasViewer alone
ViewerOnly == UNCHANGED <<editor, renderer, console, heap>>

ViewerNext ==
    \/ (\E p \in ShapeClicks(0) : shapeFirstClick(p)) /\ ViewerOnly
    \/ (\E p \in ShapeClicks(1) : shapeSecondClick(p)) /\ ViewerOnly
    \/ (\E p \in PolygonClicks(Len(viewer.currentPolygon)) : polygonClose(p)) /\ ViewerOnly
    \/ (\E p \in PolygonClicks(Len(viewer.currentPolygon)) : polygonPoint(p)) /\ ViewerOnly
    \/ (\E p \in DownPoints : handleMouseDown(p)) /\ ViewerOnly
    \/ (\E p \in MovePoints : handleMouseMove(p)) /\ ViewerOnly
    \/ handleMouseUp /\ ViewerOnly
    \/ Viewer_handleUndo /\ ViewerOnly
    \/ Viewer_handleRedo /\ ViewerOnly
    \/ (\E m \in {"polygon", "shape", "select"} : setMode(m)) /\ ViewerOnly
    \/ (\E t \in {"rectangle", "circle", "triangle"} : setShapeType(t)) /\ ViewerOnly
    \/ chooseFile /\ ViewerOnly
    \/ loadPdfResolved /\ ViewerOnly
    \/ loadPdfRejected /\ ViewerOnly

SpecViewer == Init /\ [][ViewerNext]_vars

----------------------------------------------------------------------------
(* Vocabulary of the properties, stated on the observed event ev. *)

\* the last event was a closure that ran to its end
Closed == ev.closed

\* the existing zones the closure looked at
PreZones == ev.pre.zones

\* the new polygon the closure merged
NewPolygon == ev.pre.currentPolygon

\* what the library answered for existing zone i
Contained(i) == ev.answers[i].kind = "contains"
Intersected(i) == ev.answers[i].kind = "intersects"
Disjoint(i) == ev.answers[i].kind = "disjoint"

\* the number of elements of the geometry difference returned for zone i
ClippedCount(i) == Len(ev.answers[i].clipped.coordinates)

\* zone i was fully covered: intersected, and nothing is left of it
Covered(i) == Intersected(i) /\ ClippedCount(i) = 0

\* where existing zone i, or what replaces it, stands in the output: every
\* zone before it that is not fully covered holds one place
OutPos(i) == i - Cardinality({j \in 1..(i - 1) : Covered(j)})

\* the number of zones of the output that come from existing zones
KeptCount == Len(PreZones) - Cardinality({j \in 1..Len(PreZones) : Covered(j)})

\* a ring with every coordinate rounded to two decimals
RoundedRing(ring) ==
    [k \in 1..Len(ring) |-> Pt(Fixed2(ring[k].x), Fixed2(ring[k].y))]

\* a ring made explicitly closed: its first point repeated at the end unless
\* it is there already
ClosedRing(ring) ==
    IF ring[1] = ring[Len(ring)] THEN ring ELSE Append(ring, ring[1])

\* the stamps of a sequence of stamps
Stamps(seq) == {seq[i] : i \in 1..Len(seq)}

\* the stamp of the redo entry the last redo removed
RemovedStamps == Stamps(ev.pre.pushedAt) \ Stamps(pushedAt)

\* the index, before the last redo, of the redo entry pushed last / first
NewestIndex ==
    CHOOSE i \in 1..Len(ev.pre.pushedAt) :
        \A j \in 1..Len(ev.pre.pushedAt) : ev.pre.pushedAt[j] <= ev.pre.pushedAt[i]
OldestIndex ==
    CHOOSE i \in 1..Len(ev.pre.pushedAt) :
        \A j \in 1..Len(ev.pre.pushedAt) : ev.pre.pushedAt[j] >= ev.pre.pushedAt[i]

\* the last event was a redo that found two or more entries on the redo stack
RedoAmongSeveral ==
    ev.op = "redo" /\ ev.outcome = "done" /\ Len(ev.pre.redoStack) >= 2

----------------------------------------------------------------------------
(* The properties. *)

\* C1: an undo right after a closure sets zones to the ZoneSet that was
\* current before the closure, and a redo right after an undo sets zones to
\* the ZoneSet that undo replaced (after a closure: the one the closure made).
C1_UndoRedoRoundTrip ==
    [][ /\ (ev.closed /\ ev'.op = "undo")
            => (ev'.outcome = "done" /\ zones' = ev.pre.zones)
        /\ (ev.op = "undo" /\ ev.outcome = "done" /\ ev'.op = "redo")
            => (ev'.outcome = "done" /\ zones' = ev.pre.zones) ]_vars

\* C1 witness: a closure has been undone and redone, and the ZoneSet is back
C1_Witness ==
    /\ ev.op = "redo" /\ ev.outcome = "done"
    /\ undoRun = <<zones>> /\ redoRun = 1
    /\ history # <<>> /\ zones # history[Len(history)]

\* C2: after k consecutive undos, the j-th of the redos that follow sets
\* zones to the ZoneSet undone j-th last: the redos replay S_1, ..., S_k.
C2_RedoReplaysUndone ==
    (ev.op = "redo" /\ ev.outcome = "done" /\ redoRun >= 1)
        => zones = undoRun[Len(undoRun) - redoRun + 1]

\* C2 witness: two undos of different ZoneSets, then two redos
C2_Witness ==
    /\ ev.op = "redo" /\ redoRun = 2 /\ Len(undoRun) = 2
    /\ undoRun[1] # undoRun[2]

\* C3 as stated: with two or more entries on the redo stack, the redo removes
\* and installs the entry pushed earliest.
C3_RedoPopsOldest ==
    RedoAmongSeveral
        => /\ RemovedStamps = {ev.pre.pushedAt[OldestIndex]}
           /\ zones = ev.pre.redoStack[OldestIndex]

\* C3 amended: with two or more entries on the redo stack, the redo removes
\* and installs the entry pushed latest (last in, first out).
C3_RedoPopsNewest ==
    RedoAmongSeveral
        => /\ RemovedStamps = {ev.pre.pushedAt[NewestIndex]}
           /\ zones = ev.pre.redoStack[NewestIndex]

\* C3 witness: a redo among two different entries
C3_Witness ==
    RedoAmongSeveral /\ ev.pre.redoStack[1] # ev.pre.redoStack[2]

\* C4: right after a closure the redo stack is empty; an empty redo stack
\* stays empty under every event but an undo; and a redo that finds it empty
\* changes nothing.
C4_ClosureEmptiesRedo ==
    /\ Closed => redoStack = <<>>
    /\ (ev.op # "undo" /\ ev.pre.redoStack = <<>>) => redoStack = <<>>
    /\ (ev.op = "redo" /\ ev.pre.redoStack = <<>>)
        => (ev.outcome = "noop" /\ zones = ev.pre.zones /\ history = ev.pre.history)

\* C4 witness: a closure that found two undone entries on the redo stack
C4_Witness == Closed /\ Len(ev.pre.redoStack) = 2

\* C5: an undo with empty history, and a redo with an empty redo stack,
\* return without an exception and leave zones, history, redoStack and
\* currentPolygon as they were.
C5_EmptyStackNoOp ==
    /\ (ev.op = "undo" /\ ev.pre.history = <<>>)
        => (ev.outcome = "noop" /\ Snapshot = ev.pre)
    /\ (ev.op = "redo" /\ ev.pre.redoStack = <<>>)
        => (ev.outcome = "noop" /\ Snapshot = ev.pre)

\* C5 witness: an undo on empty history while zones are undone and a polygon
\* is being drawn
C5_Witness ==
    /\ ev.op = "undo" /\ ev.pre.history = <<>>
    /\ redoStack # <<>> /\ currentPolygon # <<>>

\* C6 as stated: when the library throws during a closure, the closure still
\* completes: the new polygon is appended as a new zone, the prior ZoneSet is
\* recorded in history and Current Polygon is cleared.
C6_ThrowIsCaught ==
    ev.outcome = "threw"
        => /\ zones = ev.pre.zones \o << <<ev.pre.currentPolygon>> >>
           /\ history = Append(ev.pre.history, ev.pre.zones)
           /\ currentPolygon = <<>>

\* C7 as stated: on containment in zone i, the output zone at its place is
\* zone i with its outer ring and holes as stored, followed by the new
\* polygon as last hole, and the new polygon is no zone of its own.
C7_OuterRingUnchanged ==
    \A i \in 1..Len(ev.pre.zones) :
        (Closed /\ Contained(i))
            => /\ zones[OutPos(i)] = Append(PreZones[i], NewPolygon)
               /\ Len(zones) = KeptCount

\* C7 amended: on containment in zone i, the output zone at its place has
\* zone i's outer ring rounded to two decimals and explicitly closed, then
\* zone i's holes in their order, rounded, then the new polygon rounded and
\* explicitly closed as last hole; the new polygon is no zone of its own.
C7_HoleInserted ==
    \A i \in 1..Len(ev.pre.zones) :
        (Closed /\ Contained(i))
            => LET old == PreZones[i]
                   new == zones[OutPos(i)]
               IN  /\ Len(new) = Len(old) + 1
                   /\ new[1] = ClosedRing(RoundedRing(old[1]))
                   /\ \A k \in 2..Len(old) : new[k] = RoundedRing(old[k])
                   /\ new[Len(new)] = ClosedRing(RoundedRing(NewPolygon))
                   /\ Len(zones) = KeptCount

\* C7 witness: a hole inserted into a zone that had another hole already and
\* whose stored outer ring was not rounded
C7_Witness ==
    \E i \in 1..Len(ev.pre.zones) :
        /\ Closed /\ Contained(i)
        /\ Len(PreZones[i]) = 2
        /\ PreZones[i][2] # ClosedRing(RoundedRing(NewPolygon))
        /\ PreZones[i][1] # RoundedRing(PreZones[i][1])

\* zone i was split: intersected, and difference returned a MultiPolygon
Split(i) == Intersected(i) /\ ev.answers[i].clipped.type = "MultiPolygon"

\* C8 as stated: when difference leaves n >= 1 rings of an intersected zone
\* (here the two one-ring pieces of a split zone), n zones of one ring each
\* replace it, so the other zones passing through, the split raises the zone
\* count.
C8_SplitRaisesCount ==
    \A i \in 1..Len(ev.pre.zones) :
        (/\ Closed /\ Split(i) /\ ClippedCount(i) = 2
         /\ \A j \in 1..Len(ev.pre.zones) : j # i => Disjoint(j))
            => /\ Len(zones) = Len(PreZones) + 1
               /\ zones[i] = << Points(ev.answers[i].clipped.coordinates[1][1]) >>
               /\ zones[i + 1] = << Points(ev.answers[i].clipped.coordinates[2][1]) >>

\* C9: when zone i is intersected and the difference leaves nothing, nothing
\* stands for it in the output and the new polygon is not appended: the
\* output holds one zone per existing zone that is not fully covered, and with
\* every other zone disjoint it is the input without zone i.
C9_CoveredZoneRemoved ==
    \A i \in 1..Len(ev.pre.zones) :
        (Closed /\ Covered(i))
            => /\ Len(zones) = KeptCount
               /\ (\A j \in 1..Len(ev.pre.zones) : j # i => Disjoint(j))
                    => /\ Len(zones) = Len(PreZones) - 1
                       /\ zones = SubSeq(PreZones, 1, i - 1)
                                    \o SubSeq(PreZones, i + 1, Len(PreZones))

\* C9 witness: the first of two zones is covered and the second stays
C9_Witness ==
    /\ Closed /\ Len(PreZones) = 2
    /\ Covered(1) /\ Disjoint(2)
    /\ zones = <<PreZones[2]>>

\* C10: when every existing zone is disjoint from the new polygon, the output
\* is the input, every zone as it was and in the same order, followed by one
\* zone of one ring, the new polygon.
C10_DisjointGrowth ==
    (Closed /\ \A i \in 1..Len(ev.pre.zones) : Disjoint(i))
        => /\ zones = PreZones \o << <<NewPolygon>> >>
           /\ Len(zones) = Len(PreZones) + 1

\* C10 witness: a third zone added to two that stay
C10_Witness ==
    /\ Closed /\ Len(PreZones) = 2
    /\ Disjoint(1) /\ Disjoint(2)
    /\ Len(zones) = 3

\* existing zone i stands in the output, at its place, as it was
PassedThrough(i) == ~Covered(i) /\ zones[OutPos(i)] = PreZones[i]

\* C11 as stated: a closure leaves all existing zones but at most one as they
\* were: at most one is hole-inserted, subtracted from or dropped.
C11_AtMostOneAffected ==
    Closed => Cardinality({i \in 1..Len(PreZones) : ~PassedThrough(i)}) <= 1

\* C11 amended: every existing zone is judged on its own against the new
\* polygon, so any number of them may be hole-inserted, subtracted from or
\* dropped; every zone the new polygon is disjoint from passes through to the
\* output unchanged, at its place among the zones that are kept, and every
\* zone it intersects is dropped or replaced at its place by one zone.
C11_DisjointPassThrough ==
    \A i \in 1..Len(ev.pre.zones) :
        Closed => /\ Disjoint(i) => PassedThrough(i)
                  /\ (Intersected(i) /\ ~Covered(i))
                        => zones[OutPos(i)] = Parts(ev.answers[i].clipped)
                  /\ Len(zones) >= KeptCount

\* C11 witness: of two existing zones the first is subtracted from and changes,
\* the second, whose stored outer ring is not closed, passes through
C11_Witness ==
    /\ Closed /\ Len(PreZones) = 2
    /\ Intersected(1) /\ ~Covered(1) /\ zones[1] # PreZones[1]
    /\ Disjoint(2) /\ zones[2] = PreZones[2]
    /\ PreZones[2][1] # ClosedRing(PreZones[2][1])

\* the last event asked for a closure: a double-click, or a click whose snapped
\* point is within the closure threshold of the start point, with three or
\* more points drawn.  A click that closes observes no raw point; a click that
\* appends does.
ClosureAsked ==
    /\ Len(ev.pre.currentPolygon) >= 3
    /\ \/ ev.op = "dblclick"
       \/ ev.op = "click" /\ "raw" \notin DOMAIN ev
       \/ /\ ev.op = "click" /\ "raw" \in DOMAIN ev
          /\ isCloseToStart(ev.pre.currentPolygon[1],
                            getSnappedPoint(ev.raw, ev.pre.zones))

\* C12 as stated: a click near the start point, or a double-click, with three
\* or more points drawn pushes the pre-closure ZoneSet as one more history
\* entry, empties Current Polygon without appending the click's point, and
\* replaces zones (the redo stack being emptied with it).
C12_ClosureTransition ==
    ClosureAsked
        => /\ history = Append(ev.pre.history, ev.pre.zones)
           /\ currentPolygon = <<>>
           /\ ev.closed

\* C13: with fewer than three points drawn, a click appends its snapped point
\* to Current Polygon, near the start point or not, a double-click changes
\* nothing, and neither changes zones, history or redoStack.
C13_NoClosureBelowThree ==
    /\ (ev.op = "click" /\ Len(ev.pre.currentPolygon) < 3)
        => /\ "raw" \in DOMAIN ev /\ ev.outcome = "done" /\ ~ev.closed
           /\ currentPolygon = Append(ev.pre.currentPolygon,
                                       getSnappedPoint(ev.raw, ev.pre.zones))
           /\ zones = ev.pre.zones /\ history = ev.pre.history
           /\ redoStack = ev.pre.redoStack
    /\ (ev.op = "dblclick" /\ Len(ev.pre.currentPolygon) < 3)
        => (ev.outcome = "noop" /\ Snapshot = ev.pre)

\* C13 witness: a third point clicked on the start point is appended, with
\* zones, history and undone entries in place
C13_Witness ==
    /\ ev.op = "click" /\ Len(ev.pre.currentPolygon) = 2
    /\ Len(currentPolygon) = 3
    /\ isCloseToStart(currentPolygon[1], currentPolygon[3])
    /\ zones # <<>> /\ history # <<>> /\ redoStack # <<>>

\* the points of a ring, each counted once
DistinctPoints(ring) == {ring[k] : k \in 1..Len(ring)}

\* C14 as stated: the ring a closure merges, Current Polygon as
\* handleClosePolygon finds it, has three or more distinct points, whatever
\* clicks and double-clicks drew it.
C14_ClosedRingValid ==
    Closed => Cardinality(DistinctPoints(NewPolygon)) >= 3

\* C15: "Clear Current Polygon" empties Current Polygon and leaves zones,
\* history and redoStack as they were.
C15_ClearFrame ==
    ev.op = "clear"
        => /\ currentPolygon = <<>>
           /\ zones = ev.pre.zones
           /\ history = ev.pre.history
           /\ redoStack = ev.pre.redoStack

\* C15 witness: a polygon in progress cleared while zones, history entries and
\* undone entries exist
C15_Witness ==
    /\ ev.op = "clear" /\ ev.pre.currentPolygon # <<>>
    /\ zones # <<>> /\ history # <<>> /\ redoStack # <<>>

\* the last event was a click that appended its snapped point
Appended == ev.op = "click" /\ "raw" \in DOMAIN ev

\* the point that click appended
AppendedPoint == currentPolygon[Len(currentPolygon)]

\* the vertices within the snap threshold of point p: distance(p, V) < 10
WithinSnap(p, vs) ==
    {i \in 1..Len(vs) : IsNumeric(vs[i])
                         /\ DistSq(p, vs[i]) < Px(SNAP_THRESHOLD) * Px(SNAP_THRESHOLD)}

\* those of them no other is nearer than
NearestOf(p, vs) ==
    {i \in WithinSnap(p, vs) :
        \A j \in WithinSnap(p, vs) : DistSq(p, vs[i]) <= DistSq(p, vs[j])}

\* q is at distance 1 from v, to the precision of the arithmetic (0.003)
UnitAway(q, v) ==
    /\ DistSq(q, v) >= (Px(1) - 3) * (Px(1) - 3)
    /\ DistSq(q, v) <= (Px(1) + 3) * (Px(1) + 3)

\* C16 as stated: when some vertex is within distance < 10 of the clicked
\* point P, the snapped point is at distance 1 from the nearest such vertex V
\* and is never V itself, also when P is V; when none is, it is P.
C16_SnapOffset ==
    Appended
        => LET vs == Vertices(ev.pre.zones)
           IN  IF WithinSnap(ev.raw, vs) = {}
               THEN AppendedPoint = ev.raw
               ELSE \E i \in NearestOf(ev.raw, vs) :
                        /\ UnitAway(AppendedPoint, vs[i])
                        /\ AppendedPoint # vs[i]

\* the calls of renderPDFPage whose render task was started
StartedTasks == {i \in 1..Len(renders) : renders[i].task # "none"}

\* those whose task is started and neither cancelled nor ended
RunningTasks == {i \in 1..Len(renders) : renders[i].task = "running"}

\* the calls of renderPDFPage that have not returned
InFlight == {i \in 1..Len(renders) : renders[i].pc \in {"getPage", "renderTask"}}

\* call i returns in this step with its render cancelled or failed
RenderLost(i) ==
    /\ renders[i].pc \in {"getPage", "renderTask"}
    /\ renders'[i].pc \in {"cancelled", "failed"}

\* C17: however the calls of renderPDFPage overlap, cancel() has been called
\* on every started render task but the one started last, so at most one
\* task is started and neither cancelled nor ended; and a step in which a
\* call ends with its render cancelled or failed leaves zones,
\* currentPolygon, history and redoStack unchanged.
C17_RenderCancellation ==
    /\ [](/\ Cardinality(RunningTasks) <= 1
          /\ RunningTasks \subseteq {renderTaskRef}
          /\ \A i \in StartedTasks : i # renderTaskRef => renders[i].cancelCalled)
    /\ [][(\E i \in 1..Len(renders) : RenderLost(i))
            => UNCHANGED <<zones, currentPolygon, history, redoStack>>]_vars

\* C17 witness: one render was cancelled by a later call, another failed, a
\* third is running, and a polygon is being drawn
C17_Witness ==
    /\ \E i \in 1..Len(renders) : renders[i].pc = "cancelled"
    /\ \E i \in 1..Len(renders) : renders[i].pc = "failed" /\ renders[i].task = "failed"
    /\ RunningTasks # {}
    /\ currentPolygon # <<>>

\* C20 as stated: once the document is loaded and no call of renderPDFPage is
\* in flight, the overlay on the canvas is the one drawn from the current
\* zones and the current polygon, whenever the clicks came.
C20_OverlayIsCurrent ==
    (pdfDoc = "pdf" /\ InFlight = {} /\ canvas # Blank)
        => canvas = Overlay(zones, currentPolygon)

\* the ZoneSet the array of reference a holds now
Held(a) == heap.arrays[a]

\* C18: the array behind every entry of history and of redoStack holds, for
\* as long as the entry is there and so when it is popped, the ZoneSet it
\* held when it was pushed (the value history and redoStack recorded then),
\* whatever clicks, closures, clears, undos and redos came in between; and
\* the array behind zones holds the ZoneSet installed last.
C18_SnapshotsIndependent ==
    /\ Len(heap.history) = Len(history)
    /\ Len(heap.redoStack) = Len(redoStack)
    /\ \A i \in 1..Len(history) : Held(heap.history[i]) = history[i]
    /\ \A i \in 1..Len(redoStack) : Held(heap.redoStack[i]) = redoStack[i]
    /\ Held(heap.zones) = zones
    /\ (ev.op = "undo" /\ ev.outcome = "done")
        => zones = ev.pre.history[Len(ev.pre.history)]
    /\ (ev.op = "redo" /\ ev.outcome = "done")
        => zones = ev.pre.redoStack[1]

\* C18 witness: an entry pushed two closures ago is popped by the second of
\* two undos, while another entry waits on the redo stack
C18_Witness ==
    /\ ev.op = "undo" /\ ev.outcome = "done"
    /\ Len(undoRun) = 2 /\ redoRun = 0
    /\ Len(heap.redoStack) = 2
    /\ Held(heap.zones) # Held(heap.redoStack[1])
    /\ Held(heap.redoStack[1]) # Held(heap.redoStack[2])

\* the number a JSON number text stands for, in thousandths
NumberOf(text) ==
    IF text.minus THEN 0 - (text.digits * 1000 + text.decimals)
                  ELSE text.digits * 1000 + text.decimals

\* the point a JSON point text stands for
PointOf(text) ==
    IF text.x.json = "number"
    THEN Pt(NumberOf(text.x), NumberOf(text.y))
    ELSE [xs |-> [k \in 1..Len(text.x.items) |-> NumberOf(text.x.items[k])],
          ys |-> [k \in 1..Len(text.y.items) |-> NumberOf(text.y.items[k])]]

\* the ring a JSON ring text stands for
RingOf(text) == [k \in 1..Len(text) |-> PointOf(text[k])]

\* the ZoneSet rebuilt from an exported list: per entry, outer then holes
Reconstructed(list) ==
    [i \in 1..Len(list) |->
        <<RingOf(list[i].outer)>>
            \o [k \in 1..Len(list[i].holes) |-> RingOf(list[i].holes[k])]]

\* C19: the exported list has one entry per zone, in ZoneSet order; entry i
\* (counted from 0) has zoneIndex i, as outer the first ring of zone i and as
\* holes its other rings in their stored order, so that the ZoneSet is rebuilt
\* exactly from the list; and the export changes no state of the editor.
C19_ExportRoundTrip ==
    ev.op = "export"
        => /\ Len(console) = Len(zones)
           /\ \A i \in 1..Len(zones) :
                 /\ NumberOf(console[i].zoneIndex) = Px(i - 1)
                 /\ RingOf(console[i].outer) = zones[i][1]
                 /\ Len(console[i].holes) = Len(zones[i]) - 1
                 /\ \A k \in 1..(Len(zones[i]) - 1) :
                       RingOf(console[i].holes[k]) = zones[i][k + 1]
           /\ Reconstructed(console) = zones
           /\ Snapshot = ev.pre

\* C19 witness: three zones exported, the second with two different holes,
\* while a polygon is being drawn and history and redo entries exist
C19_Witness ==
    /\ ev.op = "export" /\ Len(zones) = 3
    /\ Len(zones[2]) = 3 /\ zones[2][2] # zones[2][3]
    /\ zones[1] # zones[3]
    /\ currentPolygon # <<>> /\ history # <<>> /\ redoStack # <<>>

\* polygons, currentPolygon and shapes of PDFCanvasViewer as they stand
Drawing == EditorState(viewer)

\* the last event was a handleUndo that ran to its end right after one of the
\* operations that call saveToUndoStack
UndoneAtOnce == edit.op = "undo" /\ edit.of \in Mutating

\* C21: in PDFCanvasViewer, handleUndo right after a point add, a polygon
\* close, a shape add or a shape resize leaves polygons, currentPolygon and
\* shapes as they were before that operation, and handleRedo right after
\* that undo leaves them as they were after it.
C21_UndoRestoresPreOperation ==
    /\ UndoneAtOnce => Drawing = edit.pre
    /\ edit.op = "redo" /\ edit.of \in Mutating => Drawing = edit.post

\* history ++ [zones] ++ redoStack of the state s
Timeline(s) == s.history \o <<s.zones>> \o s.redoStack

\* the three timeline variables as they stand
Standing == [history |-> history, zones |-> zones, redoStack |-> redoStack]

\* the last event was a handleUndo or a handleRedo that ran to its end
Moved == ev.op \in {"undo", "redo"} /\ ev.outcome = "done"

\* C22: a handleUndo or handleRedo that runs to its end leaves
\* history ++ [zones] ++ redoStack as it was and moves the current ZoneSet by
\* one place in it, so Len(history) + Len(redoStack) stays the same; an undo
\* followed at once by a redo, and a redo followed at once by an undo, leave
\* history, zones and redoStack as they were before the pair; a closure that
\* runs to its end makes history longer by exactly one.
C22_TimelineConserved ==
    /\ [](/\ Moved =>
             /\ Timeline(Standing) = Timeline(ev.pre)
             /\ Len(history) + Len(redoStack)
                  = Len(ev.pre.history) + Len(ev.pre.redoStack)
             /\ Len(history) = Len(ev.pre.history)
                                 + (IF ev.op = "redo" THEN 1 ELSE 0 - 1)
          /\ Closed => Len(history) = Len(ev.pre.history) + 1)
    /\ [][Moved /\ Moved' /\ ev.op # ev'.op =>
            <<history', zones', redoStack'>>
              = <<ev.pre.history, ev.pre.zones, ev.pre.redoStack>>]_vars

\* a redo right after an undo, with ZoneSets on both sides of the current one
C22_Witness ==
    /\ ev.op = "redo" /\ ev.outcome = "done"
    /\ redoRun > 0
    /\ Len(history) >= 2
    /\ Len(redoStack) >= 1

\* the last event was a handleUndo or a handleRedo, whether or not it found
\* a ZoneSet to restore
UndoOrRedo == ev.op \in {"undo", "redo"}

\* C23: handleUndo and handleRedo leave Current Polygon as it was, and a
\* closure right after one of them merges the polygon from before it against
\* the ZoneSet it restored; a click that does not call handleClosePolygon
\* makes Current Polygon longer by exactly one point and leaves zones,
\* history and redoStack as they were.
C23_FrameConditions ==
    /\ [](/\ UndoOrRedo => currentPolygon = ev.pre.currentPolygon
          /\ Appended =>
               /\ Len(currentPolygon) = Len(ev.pre.currentPolygon) + 1
               /\ SubSeq(currentPolygon, 1, Len(currentPolygon) - 1)
                    = ev.pre.currentPolygon
               /\ zones = ev.pre.zones
               /\ history = ev.pre.history
               /\ redoStack = ev.pre.redoStack)
    /\ [][UndoOrRedo /\ ev'.closed =>
            zones' = UpdatedZones(zones, ev.pre.currentPolygon, ev'.answers)]_vars

\* an undo or redo that restored another ZoneSet while a polygon that can be
\* closed was in progress
C23_Witness ==
    /\ Moved
    /\ zones # ev.pre.zones
    /\ Len(currentPolygon) >= 3

\* the ZoneSets the state holds: the current one and the snapshots
ZoneSets ==
    {zones} \cup {history[k] : k \in 1..Len(history)}
            \cup {redoStack[k] : k \in 1..Len(redoStack)}

\* the closure found a zone that contains or intersects the new polygon
Overlapped == \E i \in 1..Len(PreZones) : Contained(i) \/ Intersected(i)

\* C24: a closure that runs to its end leaves at most one zone more than it
\* found, and no more than it found when an existing zone contains or
\* intersects the new polygon; every zone of every ZoneSet held (zones and
\* the entries of history and redoStack) has at least one ring.
C24_ZoneCountAndShape ==
    /\ Closed => Len(zones) <= Len(PreZones) + 1
    /\ Closed /\ Overlapped => Len(zones) <= Len(PreZones)
    /\ \A zs \in ZoneSets : \A i \in 1..Len(zs) : Len(zs[i]) >= 1

\* a closure over two zones, one of them intersected and one left alone,
\* that leaves two zones
C24_Witness ==
    /\ Closed
    /\ \E i, j \in 1..Len(PreZones) : Intersected(i) /\ Disjoint(j)
    /\ Len(zones) = Len(PreZones)

====
